---- MODULE Spec2Model ----
(***************************************************************************)
(* Model of the two PyTeal application programs of the repository:         *)
(*   contracts/algorand/ternary-governance-contract.py   (TAT-GOV-001)     *)
(*   contracts/algorand/ternary-reward-distributor.py    (TAT-DIST-001)    *)
(*                                                                         *)
(* A PyTeal expression bound to a Python name (proposal_id, user_rewards,  *)
(* base_reward, ...) is an expression tree, not a stored value: every use  *)
(* of the name inside a Seq evaluates it again against the state as it is  *)
(* at that point of the Seq.  The handlers below are therefore written as  *)
(* a chain of intermediate stores, and every named expression is an        *)
(* operator of the store it is evaluated in.                               *)
(*                                                                         *)
(* The AVM's uint64 "+" and "*" fail the program on overflow; a failed     *)
(* Assert, a failed opcode, or a Cond with no matching branch rejects the  *)
(* transaction and the ledger keeps the state of before the call.          *)
(*                                                                         *)
(* The two programs share no state and call nothing outside themselves, so *)
(* a behaviour of the pair is a behaviour of each: a behaviour of the      *)
(* model sends all its calls to one program (scope) and leaves the other   *)
(* as its creation left it.                                                *)
(***************************************************************************)
EXTENDS Integers, Sequences, FiniteSets, TLC

VARIABLES
    scope,             \* the program the calls of this behaviour go to
    gov_global,        \* TAT-GOV-001 global state: key -> value
    gov_status,        \* "active" | "deleted" | "updated"
    accepted_votes,    \* proposal id -> number of vote calls approved so far
    dist_global,       \* TAT-DIST-001 global state: key -> value
    dist_local,        \* TAT-DIST-001 local state: opted-in account -> (key -> value)
    dist_status        \* "active" | "deleted" | "updated"

vars == <<scope, gov_global, gov_status, accepted_votes,
          dist_global, dist_local, dist_status>>

gov_vars == <<scope, gov_global, gov_status, accepted_votes>>
dist_vars == <<dist_global, dist_local, dist_status>>

----------------------------------------------------------------------------
(* Bounds of the model *)

\* Width of the modelled unsigned integer word (the AVM's is 64).
UintBits == 24
MaxUint == 2^UintBits - 1

\* Values of Global.latest_timestamp() a call is evaluated under.
Timestamps == {1}

\* The timestamp given to the calls whose handler does not read the clock.
AnyTimestamp == CHOOSE ts \in Timestamps : TRUE

\* Largest number of accepted record_operation calls.
MaxRecords == 2

\* Largest number of accepted create_proposal calls.
MaxProposals == 2

\* Largest number of accepted vote calls, over all proposal ids.
MaxVotes == 2

\* Largest tallies of the proposal whose quorum is examined under SpecQuorum.
QuorumMaxFor == 51
QuorumMaxAgainst == 50
QuorumMaxAbstain == 1

\* Account addresses that send transactions; ZeroAddress sends none.
Accounts == {"A", "B", "C"}
ZeroAddress == "ZERO"

\* operation_value arguments tried: 1000 and the largest word (its product
\* with a rate above 1, and its sum with its bonus at rate 1, leave the word).
OpValues == {1000, MaxUint}

\* ternary_efficiency arguments tried.
Efficiencies == {0, 7}

\* proposal_id arguments tried: ids create_proposal reaches and ids it has
\* not written yet.
ProposalIds == {1, 2, 3}

\* vote_type arguments tried.
VoteTypes == 0 .. 4

\* new_rate arguments tried: a rate whose bonus on 1000 is truncated, the
\* largest rate allowed and the smallest one refused.
Rates == {1, 10000, 10001}

----------------------------------------------------------------------------
(* The ledger's key-value stores (AVM app_global_get/put, app_local_get/put) *)

EmptyStore == [k \in {} |-> 0]

\* Bytes("name")
Bytes(s) == <<s>>

\* Concat(Bytes(prefix), Itob(n)): the 8-byte big-endian image of n is one
\* component, so that different n give different keys.
Concat(prefix, n) == <<prefix, n>>

\* App.globalGet: the stored value, 0 when the key was never written.
globalGet(g, k) == IF k \in DOMAIN g THEN g[k] ELSE 0

\* App.globalPut
globalPut(g, k, v) == (k :> v) @@ g

\* App.localGet: defined for an opted-in account only.
localGet(l, a, k) == IF k \in DOMAIN l[a] THEN l[a][k] ELSE 0

\* App.localPut: defined for an opted-in account only.
localPut(l, a, k, v) == [l EXCEPT ![a] = (k :> v) @@ @]

\* a "+" that never fails the program
AddFits_unchecked(a, b) == TRUE

\* uint64 "+" and "*" stay in the word or fail the program.
AddFits(a, b) == a <= MaxUint - b
MulFits(a, b) == b = 0 \/ a <= MaxUint \div b

\* OnComplete values of an application call.
NoOp == "NoOp"
OptIn == "OptIn"
CloseOut == "CloseOut"
ClearState == "ClearState"
UpdateApplication == "UpdateApplication"
DeleteApplication == "DeleteApplication"

\* An application call.  application_args[i+1] is PyTeal's
\* Txn.application_args[i]; accounts[i] is PyTeal's Txn.accounts[i] for
\* i >= 1 (Txn.accounts[0] is the sender).
Call(app, sender, oc, args, accts) ==
    [app |-> app, sender |-> sender, on_completion |-> oc,
     application_args |-> args, accounts |-> accts]

\* Outcome of evaluating a program: approval, the stores as the program has
\* written them when it returns or fails, and its log.  The ledger commits
\* the stores of an approved call only.
Reject(g, l) == [ok |-> FALSE, global |-> g, local |-> l, log |-> <<>>]
Approve(g, l, lg) == [ok |-> TRUE, global |-> g, local |-> l, log |-> lg]

----------------------------------------------------------------------------
(* TAT-GOV-001: ternary-governance-contract.py *)

\* Global state keys
admin_key == Bytes("admin")
proposal_count_key == Bytes("proposal_count")
quorum_threshold_key == Bytes("quorum_threshold")
voting_period_key == Bytes("voting_period")

\* Proposal state keys (per proposal)
proposal_key(proposal_id) == Concat("proposal_", proposal_id)
votes_for_key(proposal_id) == Concat("votes_for_", proposal_id)
votes_against_key(proposal_id) == Concat("votes_against_", proposal_id)
votes_abstain_key(proposal_id) == Concat("votes_abstain_", proposal_id)

\* Operations
op_create_proposal == "create_proposal"
op_vote == "vote"
op_execute_proposal == "execute_proposal"
op_update_quorum == "update_quorum"

InitialQuorumThreshold == 51
InitialVotingPeriod == 604800
Percent == 100

\* init(): the global state the creating transaction of sender leaves.
gov_init(sender) ==
    LET g1 == globalPut(EmptyStore, admin_key, sender)
        g2 == globalPut(g1, proposal_count_key, 0)
        g3 == globalPut(g2, quorum_threshold_key, InitialQuorumThreshold)
        g4 == globalPut(g3, voting_period_key, InitialVotingPeriod)
    IN  g4

\* proposal_id = App.globalGet(proposal_count_key) + Int(1), in the store g
proposal_id(g) == globalGet(g, proposal_count_key) + 1

\* create_proposal(): every put of the Seq evaluates proposal_id in the
\* store the puts before it have left.
create_proposal(t, g, l, now) ==
    IF ~AddFits(globalGet(g, proposal_count_key), 1) THEN Reject(g, l)
    ELSE
      LET g1 == globalPut(g, proposal_count_key, proposal_id(g))
      IN  IF ~AddFits(globalGet(g1, proposal_count_key), 1) THEN Reject(g1, l)
          ELSE
            LET g2 == globalPut(g1, proposal_key(proposal_id(g1)), now)
                g3 == globalPut(g2, votes_for_key(proposal_id(g2)), 0)
                g4 == globalPut(g3, votes_against_key(proposal_id(g3)), 0)
                g5 == globalPut(g4, votes_abstain_key(proposal_id(g4)), 0)
            IN  Approve(g5, l, <<>>)

\* vote() without Assert(vote_type >= Int(1))
vote_no_lower_bound(t, g, l) ==
    IF Len(t.application_args) < 3 THEN Reject(g, l)
    ELSE
      LET id == t.application_args[2]
          vote_type == t.application_args[3]
          key == IF vote_type = 1 THEN votes_for_key(id)
                 ELSE IF vote_type = 2 THEN votes_against_key(id)
                 ELSE votes_abstain_key(id)
      IN  IF ~(vote_type <= 3) THEN Reject(g, l)
          ELSE Approve(globalPut(g, key, globalGet(g, key) + 1), l, <<>>)

\* vote()
vote(t, g, l) ==
    IF Len(t.application_args) < 3 THEN Reject(g, l)
    ELSE
      LET id == t.application_args[2]
          vote_type == t.application_args[3]
          key == IF vote_type = 1 THEN votes_for_key(id)
                 ELSE IF vote_type = 2 THEN votes_against_key(id)
                 ELSE votes_abstain_key(id)
      IN  IF ~(vote_type >= 1) THEN Reject(g, l)
          ELSE IF ~(vote_type <= 3) THEN Reject(g, l)
          ELSE IF ~AddFits(globalGet(g, key), 1) THEN Reject(g, l)
          ELSE Approve(globalPut(g, key, globalGet(g, key) + 1), l, <<>>)

\* execute_proposal() asserting the quotient > the threshold
execute_proposal_strict(t, g, l) ==
    IF Len(t.application_args) < 2 THEN Reject(g, l)
    ELSE
      LET id == t.application_args[2]
          votes_for == globalGet(g, votes_for_key(id))
          votes_against == globalGet(g, votes_against_key(id))
          total_votes == votes_for + votes_against
      IN  IF ~(total_votes > 0) THEN Reject(g, l)
          ELSE IF ~((votes_for * Percent) \div total_votes
                      > globalGet(g, quorum_threshold_key)) THEN Reject(g, l)
          ELSE Approve(g, l, << <<"PROPOSAL_EXECUTED">> >>)

\* execute_proposal() closing the vote of an executed proposal
execute_proposal_closing(t, g, l) ==
    IF Len(t.application_args) < 2 THEN Reject(g, l)
    ELSE
      LET id == t.application_args[2]
          votes_for == globalGet(g, votes_for_key(id))
          votes_against == globalGet(g, votes_against_key(id))
          total_votes == votes_for + votes_against
      IN  IF ~(total_votes > 0) THEN Reject(g, l)
          ELSE IF ~((votes_for * Percent) \div total_votes
                      >= globalGet(g, quorum_threshold_key)) THEN Reject(g, l)
          ELSE Approve(globalPut(g, votes_for_key(id), 0), l,
                       << <<"PROPOSAL_EXECUTED">> >>)

\* execute_proposal()
execute_proposal(t, g, l) ==
    IF Len(t.application_args) < 2 THEN Reject(g, l)
    ELSE
      LET id == t.application_args[2]
          votes_for == globalGet(g, votes_for_key(id))
          votes_against == globalGet(g, votes_against_key(id))
          total_votes == votes_for + votes_against
      IN  IF ~AddFits(votes_for, votes_against) THEN Reject(g, l)
          ELSE IF ~(total_votes > 0) THEN Reject(g, l)
          ELSE IF ~MulFits(votes_for, Percent) THEN Reject(g, l)
          ELSE IF ~((votes_for * Percent) \div total_votes
                      >= globalGet(g, quorum_threshold_key)) THEN Reject(g, l)
          ELSE Approve(g, l, << <<"PROPOSAL_EXECUTED">> >>)

\* Main router of an application call to the created program.
gov_program(t, g, l, now) ==
    IF t.on_completion = OptIn THEN Approve(g, l, <<>>)
    ELSE IF t.on_completion = CloseOut THEN Approve(g, l, <<>>)
    ELSE IF t.on_completion = DeleteApplication
         THEN (IF t.sender = globalGet(g, admin_key)
               THEN Approve(g, l, <<>>) ELSE Reject(g, l))
    ELSE IF Len(t.application_args) < 1 THEN Reject(g, l)
    ELSE IF t.application_args[1] = op_create_proposal
         THEN create_proposal(t, g, l, now)
    ELSE IF t.application_args[1] = op_vote THEN vote(t, g, l)
    ELSE IF t.application_args[1] = op_execute_proposal
         THEN execute_proposal(t, g, l)
    ELSE Reject(g, l)

\* clear_state_program()
gov_clear_state_program == TRUE

\* The program keeps no local state: the outcome of a call is the program's.
GovOutcome(t, now) ==
    IF t.on_completion = ClearState
    THEN Approve(gov_global, EmptyStore, <<>>)
    ELSE gov_program(t, gov_global, EmptyStore, now)

\* t is a vote call routed to vote()
IsVote(t) ==
    /\ t.on_completion \in {NoOp, UpdateApplication}
    /\ Len(t.application_args) >= 1
    /\ t.application_args[1] = op_vote

\* The state an application call t to TAT-GOV-001, evaluated at ledger
\* timestamp now, leaves.  A rejected call
\* leaves the state as it was; an approved DeleteApplication deletes the
\* program with its global state, an approved UpdateApplication replaces the
\* program.
GovAfter(t, now) ==
    LET r == GovOutcome(t, now)
    IN  IF ~r.ok
        THEN [global |-> gov_global, status |-> gov_status,
              votes |-> accepted_votes]
        ELSE [global |-> IF t.on_completion = DeleteApplication
                         THEN EmptyStore ELSE r.global,
              status |-> IF t.on_completion = DeleteApplication THEN "deleted"
                         ELSE IF t.on_completion = UpdateApplication
                              THEN "updated"
                         ELSE "active",
              votes |-> IF IsVote(t)
                        THEN [accepted_votes EXCEPT
                                 ![t.application_args[2]] = @ + 1]
                        ELSE accepted_votes]

\* One application call t to TAT-GOV-001
GovCall(t, now) ==
    /\ gov_status = "active"
    /\ LET n == GovAfter(t, now)
       IN  /\ gov_global' = n.global
           /\ gov_status' = n.status
           /\ accepted_votes' = n.votes
    /\ UNCHANGED <<scope, dist_vars>>

\* Number of vote calls approved so far, over the proposal ids in S
RECURSIVE VotesOver(_, _)
VotesOver(f, S) ==
    IF S = {} THEN 0
    ELSE LET p == CHOOSE x \in S : TRUE IN f[p] + VotesOver(f, S \ {p})

GovBound ==
    /\ globalGet(gov_global, proposal_count_key) <= MaxProposals
    /\ VotesOver(accepted_votes, ProposalIds) <= MaxVotes

\* The calls of the invocation surface
CreateTxn(s) == Call("gov", s, NoOp, <<op_create_proposal>>, <<>>)
VoteTxn(s, p, v) == Call("gov", s, NoOp, <<op_vote, p, v>>, <<>>)
ExecuteTxn(s, p) == Call("gov", s, NoOp, <<op_execute_proposal, p>>, <<>>)
GovDeleteTxn(s) == Call("gov", s, DeleteApplication, <<>>, <<>>)
\* op_update_quorum is declared; the router has no branch that compares to it
UpdateQuorumTxn(s, pct) == Call("gov", s, NoOp, <<op_update_quorum, pct>>, <<>>)

\* The calls tried, by operation
CreateTxns == {CreateTxn(s) : s \in Accounts}
VoteTxns == {VoteTxn(s, p, v) : s \in Accounts, p \in ProposalIds, v \in VoteTypes}
ExecuteTxns == {ExecuteTxn(s, p) : s \in Accounts, p \in ProposalIds}
\* an operation name the router has no branch for, and a call without arguments
GovUnroutedTxns ==
    {Call("gov", s, NoOp, args, <<>>) :
        s \in Accounts, args \in {<<op_update_quorum, 60>>, <<>>}}
GovOptInTxns == {Call("gov", s, OptIn, <<>>, <<>>) : s \in Accounts}
GovCloseOutTxns == {Call("gov", s, CloseOut, <<>>, <<>>) : s \in Accounts}
GovClearStateTxns == {Call("gov", s, ClearState, <<>>, <<>>) : s \in Accounts}
GovDeleteTxns == {GovDeleteTxn(s) : s \in Accounts}
\* the router has no branch for UpdateApplication: such a call is routed by
\* its first argument like a NoOp call
GovUpdateTxns ==
    {Call("gov", s, UpdateApplication, args, <<>>) :
        s \in Accounts, args \in {<<op_execute_proposal, 1>>, <<>>}}

GovTxns ==
    CreateTxns \cup VoteTxns \cup ExecuteTxns \cup GovUnroutedTxns
      \cup GovOptInTxns \cup GovCloseOutTxns \cup GovClearStateTxns
      \cup GovDeleteTxns \cup GovUpdateTxns

GovCreateProposal ==
    /\ scope = "gov"
    /\ \E t \in CreateTxns, now \in Timestamps : GovCall(t, now)
    /\ GovBound'

GovVote ==
    /\ scope = "gov"
    /\ \E t \in VoteTxns : GovCall(t, AnyTimestamp)
    /\ GovBound'

GovExecuteProposal ==
    /\ scope = "gov"
    /\ \E t \in ExecuteTxns : GovCall(t, AnyTimestamp)

GovUnrouted ==
    /\ scope = "gov"
    /\ \E t \in GovUnroutedTxns : GovCall(t, AnyTimestamp)

GovOptIn ==
    /\ scope = "gov"
    /\ \E t \in GovOptInTxns : GovCall(t, AnyTimestamp)

GovCloseOut ==
    /\ scope = "gov"
    /\ \E t \in GovCloseOutTxns : GovCall(t, AnyTimestamp)

GovClearState ==
    /\ scope = "gov"
    /\ \E t \in GovClearStateTxns : GovCall(t, AnyTimestamp)

GovDeleteApplication ==
    /\ scope = "gov"
    /\ \E t \in GovDeleteTxns : GovCall(t, AnyTimestamp)

GovUpdateApplication ==
    /\ scope = "gov"
    /\ \E t \in GovUpdateTxns : GovCall(t, AnyTimestamp)

----------------------------------------------------------------------------
(* TAT-DIST-001: ternary-reward-distributor.py *)

\* Global state keys
oracle_key == Bytes("oracle")
total_distributed_key == Bytes("total_distributed")
distribution_count_key == Bytes("distribution_count")
efficiency_bonus_rate_key == Bytes("efficiency_bonus_rate")

\* Local state keys (per user)
user_rewards_key == Bytes("rewards")
user_operations_key == Bytes("operations")
user_last_claim_key == Bytes("last_claim")

\* Operations
op_set_oracle == "set_oracle"
op_record_operation == "record_operation"
op_distribute_rewards == "distribute_rewards"
op_claim_rewards == "claim_rewards"
op_update_efficiency_rate == "update_efficiency_rate"

InitialEfficiencyBonusRate == 5850
BasisPoints == 10000
MaxEfficiencyBonusRate == 10000

\* init(): the global state the creating transaction of sender leaves.
dist_init(sender) ==
    LET g1 == globalPut(EmptyStore, admin_key, sender)
        g2 == globalPut(g1, oracle_key, ZeroAddress)
        g3 == globalPut(g2, total_distributed_key, 0)
        g4 == globalPut(g3, distribution_count_key, 0)
        g5 == globalPut(g4, efficiency_bonus_rate_key, InitialEfficiencyBonusRate)
    IN  g5

\* is_admin()
is_admin(t, g) == t.sender = globalGet(g, admin_key)

\* is_oracle() with the comparison inverted
is_oracle_inverted(t, g) == t.sender # globalGet(g, oracle_key)

\* is_oracle()
is_oracle(t, g) == t.sender = globalGet(g, oracle_key)

\* set_oracle() without Assert(is_admin())
set_oracle_unguarded(t, g, l) ==
    IF Len(t.accounts) < 1 THEN Reject(g, l)
    ELSE Approve(globalPut(g, oracle_key, t.accounts[1]), l, <<>>)

\* set_oracle() keeping an oracle that is already set
set_oracle_once(t, g, l) ==
    IF ~is_admin(t, g) THEN Reject(g, l)
    ELSE IF Len(t.accounts) < 1 THEN Reject(g, l)
    ELSE IF globalGet(g, oracle_key) # ZeroAddress THEN Approve(g, l, <<>>)
    ELSE Approve(globalPut(g, oracle_key, t.accounts[1]), l, <<>>)

\* set_oracle()
set_oracle(t, g, l) ==
    IF ~is_admin(t, g) THEN Reject(g, l)
    ELSE IF Len(t.accounts) < 1 THEN Reject(g, l)
    ELSE Approve(globalPut(g, oracle_key, t.accounts[1]), l, <<>>)

\* efficiency_bonus rounding up instead of truncating
efficiency_bonus_ceil(operation_value, g) ==
    (operation_value * globalGet(g, efficiency_bonus_rate_key) + (BasisPoints - 1))
        \div BasisPoints

\* efficiency_bonus = (operation_value * rate) / Int(10000), in the store g
efficiency_bonus(operation_value, g) ==
    (operation_value * globalGet(g, efficiency_bonus_rate_key)) \div BasisPoints

\* base_reward = operation_value + efficiency_bonus, in the store g
base_reward(operation_value, g) ==
    operation_value + efficiency_bonus(operation_value, g)

\* base_reward can be evaluated in the store g without leaving the word
base_reward_fits(operation_value, g) ==
    /\ MulFits(operation_value, globalGet(g, efficiency_bonus_rate_key))
    /\ AddFits(operation_value, efficiency_bonus(operation_value, g))

\* record_operation() adding ternary_efficiency to the reward
record_operation_weighted(t, g, l) ==
    IF ~(is_admin(t, g) \/ is_oracle(t, g)) THEN Reject(g, l)
    ELSE IF Len(t.accounts) < 1 \/ Len(t.application_args) < 3 THEN Reject(g, l)
    ELSE
      LET user == t.accounts[1]
          operation_value == t.application_args[2]
          ternary_efficiency == t.application_args[3]
      IN  IF user \notin DOMAIN l THEN Reject(g, l)
          ELSE IF ~base_reward_fits(operation_value, g) THEN Reject(g, l)
          ELSE IF ~AddFits(localGet(l, user, user_rewards_key),
                           base_reward(operation_value, g) + ternary_efficiency)
               THEN Reject(g, l)
          ELSE
            LET l1 == localPut(l, user, user_rewards_key,
                         localGet(l, user, user_rewards_key)
                           + base_reward(operation_value, g) + ternary_efficiency)
                l2 == localPut(l1, user, user_operations_key,
                         localGet(l1, user, user_operations_key) + 1)
                g1 == globalPut(g, distribution_count_key,
                         globalGet(g, distribution_count_key) + 1)
            IN  Approve(g1, l2,
                  << <<"OPERATION_RECORDED:",
                       base_reward(operation_value, g1) + ternary_efficiency>> >>)

\* record_operation()
record_operation(t, g, l) ==
    IF ~(is_admin(t, g) \/ is_oracle(t, g)) THEN Reject(g, l)
    ELSE IF Len(t.accounts) < 1 \/ Len(t.application_args) < 2 THEN Reject(g, l)
    ELSE
      LET user == t.accounts[1]
          operation_value == t.application_args[2]
      IN  IF user \notin DOMAIN l THEN Reject(g, l)
          ELSE IF ~base_reward_fits(operation_value, g) THEN Reject(g, l)
          ELSE IF ~AddFits(localGet(l, user, user_rewards_key),
                           base_reward(operation_value, g)) THEN Reject(g, l)
          ELSE
            LET l1 == localPut(l, user, user_rewards_key,
                         localGet(l, user, user_rewards_key)
                           + base_reward(operation_value, g))
            IN  IF ~AddFits(localGet(l1, user, user_operations_key), 1)
                THEN Reject(g, l1)
                ELSE
                  LET l2 == localPut(l1, user, user_operations_key,
                               localGet(l1, user, user_operations_key) + 1)
                  IN  IF ~AddFits(globalGet(g, distribution_count_key), 1)
                      THEN Reject(g, l2)
                      ELSE
                        LET g1 == globalPut(g, distribution_count_key,
                                     globalGet(g, distribution_count_key) + 1)
                        IN  Approve(g1, l2,
                              << <<"OPERATION_RECORDED:",
                                   base_reward(operation_value, g1)>> >>)

\* user_rewards = App.localGet(Txn.sender(), user_rewards_key), in the store l
user_rewards(t, l) == localGet(l, t.sender, user_rewards_key)

\* claim_rewards() asserting user_rewards >= Int(0)
claim_rewards_zero(t, g, l, now) ==
    IF t.sender \notin DOMAIN l THEN Reject(g, l)
    ELSE
      LET l1 == localPut(l, t.sender, user_rewards_key, 0)
          l2 == localPut(l1, t.sender, user_last_claim_key, now)
          g1 == globalPut(g, total_distributed_key,
                          globalGet(g, total_distributed_key) + user_rewards(t, l2))
      IN  Approve(g1, l2, << <<"REWARDS_CLAIMED:", user_rewards(t, l2)>> >>)

\* claim_rewards() leaving one unit of the balance
claim_rewards_partial(t, g, l, now) ==
    IF t.sender \notin DOMAIN l THEN Reject(g, l)
    ELSE IF ~(user_rewards(t, l) > 1) THEN Reject(g, l)
    ELSE
      LET l1 == localPut(l, t.sender, user_rewards_key, 1)
          l2 == localPut(l1, t.sender, user_last_claim_key, now)
          g1 == globalPut(g, total_distributed_key,
                          globalGet(g, total_distributed_key) + user_rewards(t, l2))
      IN  Approve(g1, l2, << <<"REWARDS_CLAIMED:", user_rewards(t, l2)>> >>)

\* claim_rewards()
claim_rewards(t, g, l, now) ==
    IF t.sender \notin DOMAIN l THEN Reject(g, l)
    ELSE IF ~(user_rewards(t, l) > 0) THEN Reject(g, l)
    ELSE
      LET l1 == localPut(l, t.sender, user_rewards_key, 0)
          l2 == localPut(l1, t.sender, user_last_claim_key, now)
      IN  IF ~AddFits(globalGet(g, total_distributed_key), user_rewards(t, l2))
          THEN Reject(g, l2)
          ELSE
            LET g1 == globalPut(g, total_distributed_key,
                         globalGet(g, total_distributed_key) + user_rewards(t, l2))
            IN  Approve(g1, l2, << <<"REWARDS_CLAIMED:", user_rewards(t, l2)>> >>)

\* update_efficiency_rate() asserting new_rate < Int(10000)
update_efficiency_rate_strict(t, g, l) ==
    IF ~is_admin(t, g) THEN Reject(g, l)
    ELSE IF Len(t.application_args) < 2 THEN Reject(g, l)
    ELSE
      LET new_rate == t.application_args[2]
      IN  IF ~(new_rate < MaxEfficiencyBonusRate) THEN Reject(g, l)
          ELSE Approve(globalPut(g, efficiency_bonus_rate_key, new_rate), l, <<>>)

\* update_efficiency_rate() storing the rate before Assert(new_rate <= ...)
update_efficiency_rate_late_check(t, g, l) ==
    IF ~is_admin(t, g) THEN Reject(g, l)
    ELSE IF Len(t.application_args) < 2 THEN Reject(g, l)
    ELSE
      LET new_rate == t.application_args[2]
          g1 == globalPut(g, efficiency_bonus_rate_key, new_rate)
      IN  IF ~(new_rate <= MaxEfficiencyBonusRate) THEN Reject(g1, l)
          ELSE Approve(g1, l, <<>>)

\* update_efficiency_rate()
update_efficiency_rate(t, g, l) ==
    IF ~is_admin(t, g) THEN Reject(g, l)
    ELSE IF Len(t.application_args) < 2 THEN Reject(g, l)
    ELSE
      LET new_rate == t.application_args[2]
      IN  IF ~(new_rate <= MaxEfficiencyBonusRate) THEN Reject(g, l)
          ELSE Approve(globalPut(g, efficiency_bonus_rate_key, new_rate), l, <<>>)

\* Main router running init() again on a call without arguments
dist_program_reinit(t, g, l, now) ==
    IF t.on_completion = OptIn THEN Approve(g, l, <<>>)
    ELSE IF t.on_completion = CloseOut THEN Approve(g, l, <<>>)
    ELSE IF t.on_completion = DeleteApplication
         THEN (IF is_admin(t, g) THEN Approve(g, l, <<>>) ELSE Reject(g, l))
    ELSE IF Len(t.application_args) < 1 THEN Approve(dist_init(t.sender), l, <<>>)
    ELSE IF t.application_args[1] = op_set_oracle THEN set_oracle(t, g, l)
    ELSE IF t.application_args[1] = op_record_operation THEN record_operation(t, g, l)
    ELSE IF t.application_args[1] = op_claim_rewards THEN claim_rewards(t, g, l, now)
    ELSE IF t.application_args[1] = op_update_efficiency_rate
         THEN update_efficiency_rate(t, g, l)
    ELSE Reject(g, l)

\* Main router of an application call to the created program: Cond takes the
\* first branch whose condition holds and fails when none does.  The branch
\* Txn.application_id() == Int(0), which runs init(), is the creating
\* transaction's alone.
dist_program(t, g, l, now) ==
    IF t.on_completion = OptIn THEN Approve(g, l, <<>>)
    ELSE IF t.on_completion = CloseOut THEN Approve(g, l, <<>>)
    ELSE IF t.on_completion = DeleteApplication
         THEN (IF is_admin(t, g) THEN Approve(g, l, <<>>) ELSE Reject(g, l))
    ELSE IF Len(t.application_args) < 1 THEN Reject(g, l)
    ELSE IF t.application_args[1] = op_set_oracle THEN set_oracle(t, g, l)
    ELSE IF t.application_args[1] = op_record_operation THEN record_operation(t, g, l)
    ELSE IF t.application_args[1] = op_claim_rewards THEN claim_rewards(t, g, l, now)
    ELSE IF t.application_args[1] = op_update_efficiency_rate
         THEN update_efficiency_rate(t, g, l)
    ELSE Reject(g, l)

\* clear_state_program()
dist_clear_state_program == TRUE

\* The ledger's handling of an application call t to the created program:
\* opt-in allocates the sender's local state before the program runs (and is
\* refused for an account already opted in), close-out and clear-state need
\* an opted-in sender, and clear-state runs the clear state program, whose
\* verdict the ledger ignores.  The outcome is what the program returns.
DistOutcome(t, now) ==
    LET refused ==
            \/ t.on_completion = OptIn /\ t.sender \in DOMAIN dist_local
            \/ /\ t.on_completion \in {CloseOut, ClearState}
               /\ t.sender \notin DOMAIN dist_local
        l0 == IF t.on_completion = OptIn
              THEN (t.sender :> EmptyStore) @@ dist_local
              ELSE dist_local
    IN  IF refused THEN Reject(dist_global, dist_local)
        ELSE IF t.on_completion = ClearState
             THEN Approve(dist_global, dist_local, <<>>)
        ELSE dist_program(t, dist_global, l0, now)

\* The state an application call t to TAT-DIST-001, evaluated at ledger
\* timestamp now, leaves.  A rejected call
\* leaves the state as it was.  An approved call commits the program's
\* writes; close-out and clear-state then free the sender's local state, an
\* approved DeleteApplication deletes the program with its global state, an
\* approved UpdateApplication replaces the program.
DistAfter(t, now) ==
    LET r == DistOutcome(t, now)
    IN  IF ~r.ok
        THEN [global |-> dist_global, local |-> dist_local,
              status |-> dist_status]
        ELSE [global |-> IF t.on_completion = DeleteApplication
                         THEN EmptyStore ELSE r.global,
              local |-> IF t.on_completion \in {CloseOut, ClearState}
                        THEN [a \in DOMAIN r.local \ {t.sender} |-> r.local[a]]
                        ELSE r.local,
              status |-> IF t.on_completion = DeleteApplication THEN "deleted"
                         ELSE IF t.on_completion = UpdateApplication
                              THEN "updated"
                         ELSE "active"]

\* One application call t to TAT-DIST-001
DistCall(t, now) ==
    /\ dist_status = "active"
    /\ LET n == DistAfter(t, now)
       IN  /\ dist_global' = n.global
           /\ dist_local' = n.local
           /\ dist_status' = n.status
    /\ globalGet(dist_global', distribution_count_key) <= MaxRecords
    /\ UNCHANGED <<scope, gov_vars>>

\* The calls of the invocation surface
SetOracleTxn(s, a) == Call("dist", s, NoOp, <<op_set_oracle>>, <<a>>)
RecordTxn(s, a, v, e) ==
    Call("dist", s, NoOp, <<op_record_operation, v, e>>, <<a>>)
ClaimTxn(s) == Call("dist", s, NoOp, <<op_claim_rewards>>, <<>>)
RateTxn(s, r) == Call("dist", s, NoOp, <<op_update_efficiency_rate, r>>, <<>>)
DistDeleteTxn(s) == Call("dist", s, DeleteApplication, <<>>, <<>>)

\* The calls tried, by operation
SetOracleTxns == {SetOracleTxn(s, a) : s \in Accounts, a \in Accounts}
RecordTxns ==
    {RecordTxn(s, a, v, e) :
        s \in Accounts, a \in Accounts, v \in OpValues, e \in Efficiencies}
ClaimTxns == {ClaimTxn(s) : s \in Accounts}
RateTxns == {RateTxn(s, r) : s \in Accounts, r \in Rates}
\* an operation name the router has no branch for, and a call without arguments
DistUnroutedTxns ==
    {Call("dist", s, NoOp, args, <<>>) :
        s \in Accounts, args \in {<<op_distribute_rewards>>, <<>>}}
DistOptInTxns == {Call("dist", s, OptIn, <<>>, <<>>) : s \in Accounts}
DistCloseOutTxns == {Call("dist", s, CloseOut, <<>>, <<>>) : s \in Accounts}
DistClearStateTxns == {Call("dist", s, ClearState, <<>>, <<>>) : s \in Accounts}
DistDeleteTxns == {DistDeleteTxn(s) : s \in Accounts}
\* the router has no branch for UpdateApplication: such a call is routed by
\* its first argument like a NoOp call
DistUpdateTxns ==
    {Call("dist", s, UpdateApplication, args, <<>>) :
        s \in Accounts, args \in {<<op_claim_rewards>>, <<>>}}

DistTxns ==
    SetOracleTxns \cup RecordTxns \cup ClaimTxns \cup RateTxns
      \cup DistUnroutedTxns \cup DistOptInTxns \cup DistCloseOutTxns
      \cup DistClearStateTxns \cup DistDeleteTxns \cup DistUpdateTxns

DistSetOracle ==
    /\ scope = "dist"
    /\ \E t \in SetOracleTxns : DistCall(t, AnyTimestamp)

DistRecordOperation ==
    /\ scope = "dist"
    /\ \E t \in RecordTxns : DistCall(t, AnyTimestamp)

DistClaimRewards ==
    /\ scope = "dist"
    /\ \E t \in ClaimTxns, now \in Timestamps : DistCall(t, now)

DistUpdateEfficiencyRate ==
    /\ scope = "dist"
    /\ \E t \in RateTxns : DistCall(t, AnyTimestamp)

DistUnrouted ==
    /\ scope = "dist"
    /\ \E t \in DistUnroutedTxns : DistCall(t, AnyTimestamp)

DistOptIn ==
    /\ scope = "dist"
    /\ \E t \in DistOptInTxns : DistCall(t, AnyTimestamp)

DistCloseOut ==
    /\ scope = "dist"
    /\ \E t \in DistCloseOutTxns : DistCall(t, AnyTimestamp)

DistClearState ==
    /\ scope = "dist"
    /\ \E t \in DistClearStateTxns : DistCall(t, AnyTimestamp)

DistDeleteApplication ==
    /\ scope = "dist"
    /\ \E t \in DistDeleteTxns : DistCall(t, AnyTimestamp)

DistUpdateApplication ==
    /\ scope = "dist"
    /\ \E t \in DistUpdateTxns, now \in Timestamps : DistCall(t, now)

----------------------------------------------------------------------------
(* Specifications *)

\* The account that sends the two creating transactions
\* (Txn.application_id() == Int(0)), which run init().
Creator == "A"

Created ==
    /\ gov_global = gov_init(Creator)
    /\ gov_status = "active"
    /\ accepted_votes = [p \in ProposalIds |-> 0]
    /\ dist_global = dist_init(Creator)
    /\ dist_local = EmptyStore
    /\ dist_status = "active"

Init ==
    /\ scope \in {"gov", "dist"}
    /\ Created

GovNext ==
    \/ GovCreateProposal
    \/ GovVote
    \/ GovExecuteProposal
    \/ GovUnrouted
    \/ GovOptIn
    \/ GovCloseOut
    \/ GovClearState
    \/ GovDeleteApplication
    \/ GovUpdateApplication

DistNext ==
    \/ DistSetOracle
    \/ DistRecordOperation
    \/ DistClaimRewards
    \/ DistUpdateEfficiencyRate
    \/ DistUnrouted
    \/ DistOptIn
    \/ DistCloseOut
    \/ DistClearState
    \/ DistDeleteApplication
    \/ DistUpdateApplication

Next == GovNext \/ DistNext

\* Every interleaving of application calls to one of the two programs.
Spec == Init /\ [][Next]_vars
----------------------------------------------------------------------------
(* The state as the specification names it *)

\* Account reward record of account a in the local state l
rewardsBalance(l, a) ==
    IF a \in DOMAIN l THEN localGet(l, a, user_rewards_key) ELSE 0
operationsCount(l, a) ==
    IF a \in DOMAIN l THEN localGet(l, a, user_operations_key) ELSE 0
lastClaimTimestamp(l, a) ==
    IF a \in DOMAIN l THEN localGet(l, a, user_last_claim_key) ELSE 0

\* Program-global configuration and counters in the global state g
totalDistributed(g) == globalGet(g, total_distributed_key)
distributionCount(g) == globalGet(g, distribution_count_key)
efficiencyBonusRateBps(g) == globalGet(g, efficiency_bonus_rate_key)
oracle(g) == globalGet(g, oracle_key)
admin(g) == globalGet(g, admin_key)
proposalCount(g) == globalGet(g, proposal_count_key)
quorumThresholdPct(g) == globalGet(g, quorum_threshold_key)

\* Proposal record of id p in the global state g
createdAt(g, p) == globalGet(g, proposal_key(p))
votesFor(g, p) == globalGet(g, votes_for_key(p))
votesAgainst(g, p) == globalGet(g, votes_against_key(p))
votesAbstain(g, p) == globalGet(g, votes_abstain_key(p))

\* The keys of the proposal record of id p
ProposalKeys(p) ==
    {proposal_key(p), votes_for_key(p), votes_against_key(p), votes_abstain_key(p)}

\* This step is the approved call t, evaluated at timestamp now, to
\* TAT-DIST-001 / TAT-GOV-001
DistAccepted(t, now) ==
    dist_status = "active" /\ DistOutcome(t, now).ok /\ DistCall(t, now)
GovAccepted(t, now) ==
    gov_status = "active" /\ GovOutcome(t, now).ok /\ GovCall(t, now)

----------------------------------------------------------------------------
(* Specifications of the vote and of the quorum *)

\* The global state k accepted create_proposal calls leave after creation
RECURSIVE AfterCreates(_)
AfterCreates(k) ==
    IF k = 0 THEN gov_init(Creator)
    ELSE create_proposal(CreateTxn(Creator), AfterCreates(k - 1),
                         EmptyStore, AnyTimestamp).global

VoteNext == GovVote

\* Every sequence of vote calls, after any number of create_proposal calls
SpecVote ==
    /\ scope = "gov"
    /\ \E k \in 0 .. MaxProposals : gov_global = AfterCreates(k)
    /\ gov_status = "active"
    /\ accepted_votes = [p \in ProposalIds |-> 0]
    /\ dist_global = dist_init(Creator)
    /\ dist_local = EmptyStore
    /\ dist_status = "active"
    /\ [][VoteNext]_vars

\* The proposal id whose quorum is examined under SpecQuorum
QuorumProposal == CHOOSE p \in ProposalIds : \A q \in ProposalIds : p <= q

\* The global state after f For, a Against and b Abstain votes on id p
\* in the store g that holds no tally of p
Tallied(g, p, f, a, b) ==
    LET g1 == IF f > 0 THEN globalPut(g, votes_for_key(p), f) ELSE g
        g2 == IF a > 0 THEN globalPut(g1, votes_against_key(p), a) ELSE g1
        g3 == IF b > 0 THEN globalPut(g2, votes_abstain_key(p), b) ELSE g2
    IN  g3

QuorumBound ==
    /\ votesFor(gov_global, QuorumProposal) <= QuorumMaxFor
    /\ votesAgainst(gov_global, QuorumProposal) <= QuorumMaxAgainst
    /\ votesAbstain(gov_global, QuorumProposal) <= QuorumMaxAbstain
    /\ \A p \in ProposalIds \ {QuorumProposal} : accepted_votes[p] = 0

QuorumVote ==
    /\ scope = "gov"
    /\ \E t \in VoteTxns : GovCall(t, AnyTimestamp)
    /\ QuorumBound'

QuorumNext == QuorumVote \/ GovExecuteProposal

\* vote and execute_proposal calls on one proposal, from any tally that vote
\* calls reach
SpecQuorum ==
    /\ scope = "gov"
    /\ \E f \in 0 .. QuorumMaxFor, a \in 0 .. QuorumMaxAgainst,
          b \in 0 .. QuorumMaxAbstain :
          /\ gov_global = Tallied(gov_init(Creator), QuorumProposal, f, a, b)
          /\ accepted_votes =
                [p \in ProposalIds |-> IF p = QuorumProposal THEN f + a + b ELSE 0]
    /\ gov_status = "active"
    /\ dist_global = dist_init(Creator)
    /\ dist_local = EmptyStore
    /\ dist_status = "active"
    /\ [][QuorumNext]_vars


ProposalsNext == GovCreateProposal \/ GovVote \/ GovExecuteProposal

\* Every interleaving of create_proposal, vote and execute_proposal calls
\* The governance program after its creating transaction
GovCreated ==
    /\ scope = "gov"
    /\ Created

SpecProposals == GovCreated /\ [][ProposalsNext]_vars

\* An operation_value whose reward at rate 1 stays in the word and leaves
\* a balance that no further reward of 1000 fits on.
LargeValue == MaxUint - MaxUint \div 8000

LargeRecordTxns ==
    {RecordTxn(s, a, LargeValue, e) :
        s \in Accounts, a \in Accounts, e \in Efficiencies}

DistRecordLarge ==
    /\ scope = "dist"
    /\ \E t \in LargeRecordTxns : DistCall(t, AnyTimestamp)

OverflowNext ==
    \/ DistOptIn
    \/ DistUpdateEfficiencyRate
    \/ DistRecordOperation
    \/ DistRecordLarge

\* Opt-in, update_efficiency_rate and record_operation calls with values up
\* to the end of the word
\* The reward distributor after its creating transaction
DistCreated ==
    /\ scope = "dist"
    /\ Created

SpecOverflow == DistCreated /\ [][OverflowNext]_vars

LedgerNext ==
    \/ DistOptIn
    \/ DistSetOracle
    \/ DistRecordOperation
    \/ DistClaimRewards
    \/ DistUpdateEfficiencyRate

\* Every interleaving of opt-ins and of the four operations of TAT-DIST-001
SpecLedger == DistCreated /\ [][LedgerNext]_vars

----------------------------------------------------------------------------
(* Claims *)

\* A behaviour sends its calls to one program and leaves the other as created,
\* which is a state the behaviours of the other scope start from: what is
\* claimed of a program is stated over the states of its own scope.
DistLive == scope = "dist" /\ dist_status = "active"
GovLive == scope = "gov" /\ gov_status = "active"

\* C1: every successful claim_rewards by a caller whose rewardsBalance is
\* b > 0 leaves the caller's rewardsBalance at 0 and totalDistributed exactly
\* b larger than before the call.
C1_ClaimAddsBalanceToTotal ==
    [][\A s \in Accounts, now \in Timestamps :
          DistAccepted(ClaimTxn(s), now) =>
             /\ rewardsBalance(dist_local, s) > 0
             /\ rewardsBalance(dist_local', s) = 0
             /\ totalDistributed(dist_global') =
                   totalDistributed(dist_global) + rewardsBalance(dist_local, s)
      ]_vars

\* C2: execute_proposal(proposalId) succeeds if and only if votesFor +
\* votesAgainst > 0 and the truncating quotient (votesFor * 100) / (votesFor +
\* votesAgainst) is >= the stored quorum threshold, whatever the abstain
\* tally; 51 for / 49 against at threshold 51 succeeds, 50 / 50 fails, and no
\* for/against vote always fails.
C2_ExecuteIffQuorum ==
    \A s \in Accounts, p \in ProposalIds :
        LET f == votesFor(gov_global, p)
            a == votesAgainst(gov_global, p)
            ok == GovOutcome(ExecuteTxn(s, p), AnyTimestamp).ok
        IN  /\ ok <=> ( /\ f + a > 0
                        /\ (f * 100) \div (f + a)
                              >= quorumThresholdPct(gov_global) )
            /\ quorumThresholdPct(gov_global) = 51
            /\ (f = 51 /\ a = 49) => ok
            /\ (f = 50 /\ a = 50) => ~ok
            /\ (f + a = 0) => ~ok

\* C2 witness: a proposal stands at 51 for, 49 against and one abstention,
\* exactly at the threshold, and execute_proposal is approved.
C2_Witness ==
    /\ votesFor(gov_global, QuorumProposal) = 51
    /\ votesAgainst(gov_global, QuorumProposal) = 49
    /\ votesAbstain(gov_global, QuorumProposal) = 1
    /\ accepted_votes[QuorumProposal] = 101
    /\ GovOutcome(ExecuteTxn(Creator, QuorumProposal), AnyTimestamp).ok

\* The tally of proposal id p that vote type v counts in
TallyOf(g, p, v) ==
    IF v = 1 THEN votesFor(g, p)
    ELSE IF v = 2 THEN votesAgainst(g, p)
    ELSE votesAbstain(g, p)

\* C3: through every sequence of vote calls, an accepted vote (voteType 1, 2
\* or 3) adds exactly 1 to the one matching tally of its proposal id and
\* leaves every other tally unchanged, so that votesFor + votesAgainst +
\* votesAbstain of an id equals the number of accepted vote calls on it; a
\* vote whose voteType is outside {1,2,3} is rejected and changes nothing.
C3_TalliesCountVotes ==
    /\ \A p \in ProposalIds :
          votesFor(gov_global, p) + votesAgainst(gov_global, p)
             + votesAbstain(gov_global, p) = accepted_votes[p]
    /\ \A s \in Accounts, p \in ProposalIds, v \in VoteTypes :
          LET t == VoteTxn(s, p, v)
              n == GovAfter(t, AnyTimestamp)
          IN  IF v \in {1, 2, 3}
              THEN /\ GovOutcome(t, AnyTimestamp).ok
                   /\ TallyOf(n.global, p, v) = TallyOf(gov_global, p, v) + 1
                   /\ \A q \in ProposalIds, w \in {1, 2, 3} :
                         <<q, w>> # <<p, v>> =>
                            TallyOf(n.global, q, w) = TallyOf(gov_global, q, w)
                   /\ n.votes[p] = accepted_votes[p] + 1
              ELSE /\ ~GovOutcome(t, AnyTimestamp).ok
                   /\ n.global = gov_global
                   /\ n.votes = accepted_votes

\* C3 witness: two votes of different types have been accepted on one id.
C3_Witness ==
    \E p \in ProposalIds :
        /\ accepted_votes[p] = 2
        /\ votesFor(gov_global, p) = 1
        /\ votesAgainst(gov_global, p) + votesAbstain(gov_global, p) = 1

\* b is the floor of v * r / 10000, stated without division
IsFloorBonus(b, v, r) ==
    b * BasisPoints <= v * r /\ v * r < (b + 1) * BasisPoints

\* C4: an accepted record_operation(account, operationValue, _) at stored
\* rate r adds operationValue + floor(operationValue * r / 10000) once to the
\* account's rewardsBalance, adds 1 to its operationsCount and to
\* distributionCount, and changes nothing else; 1000 at rate 5850 credits 1585.
C4_RecordCreditsReward ==
    DistLive =>
    \A s \in Accounts, a \in Accounts, v \in OpValues, e \in Efficiencies :
        LET t == RecordTxn(s, a, v, e)
            n == DistAfter(t, AnyTimestamp)
        IN  DistOutcome(t, AnyTimestamp).ok =>
             LET r == efficiencyBonusRateBps(dist_global)
                 reward == rewardsBalance(n.local, a)
                              - rewardsBalance(dist_local, a)
             IN  /\ IsFloorBonus(reward - v, v, r)
                 /\ (v = 1000 /\ r = 5850) => reward = 1585
                 /\ operationsCount(n.local, a) =
                       operationsCount(dist_local, a) + 1
                 /\ distributionCount(n.global) =
                       distributionCount(dist_global) + 1
                 /\ lastClaimTimestamp(n.local, a) =
                       lastClaimTimestamp(dist_local, a)
                 /\ DOMAIN n.local = DOMAIN dist_local
                 /\ DOMAIN n.local[a] \subseteq
                       DOMAIN dist_local[a]
                          \cup {user_rewards_key, user_operations_key}
                 /\ \A b \in DOMAIN dist_local \ {a} :
                       n.local[b] = dist_local[b]
                 /\ DOMAIN n.global = DOMAIN dist_global
                 /\ \A k \in DOMAIN dist_global \ {distribution_count_key} :
                       n.global[k] = dist_global[k]
                 /\ n.status = dist_status

\* C4 witness: one record_operation of 1000 at rate 5850 has been credited.
C4_Witness ==
    \E a \in Accounts :
        /\ rewardsBalance(dist_local, a) = 1585
        /\ operationsCount(dist_local, a) = 1
        /\ distributionCount(dist_global) = 1
        /\ efficiencyBonusRateBps(dist_global) = 5850

\* C5: record_operation by a caller that is neither the stored admin nor the
\* stored oracle is rejected and leaves the state as it was, for every target
\* and operationValue; a caller equal to the stored admin or oracle is
\* authorized: its call is approved whenever the target has opted in and the
\* arithmetic stays in the word.
C5_RecordNeedsAdminOrOracle ==
    DistLive =>
    \A s \in Accounts, a \in Accounts, v \in OpValues, e \in Efficiencies :
        LET t == RecordTxn(s, a, v, e)
            n == DistAfter(t, AnyTimestamp)
        IN  IF s \notin {admin(dist_global), oracle(dist_global)}
            THEN /\ ~DistOutcome(t, AnyTimestamp).ok
                 /\ n.global = dist_global
                 /\ n.local = dist_local
                 /\ n.status = dist_status
            ELSE ( /\ a \in DOMAIN dist_local
                   /\ base_reward_fits(v, dist_global)
                   /\ AddFits(rewardsBalance(dist_local, a),
                              base_reward(v, dist_global)) )
                 => DistOutcome(t, AnyTimestamp).ok

\* C5 witness: an oracle is set, and an account that is neither admin nor
\* oracle exists beside an account that has been credited.
C5_Witness ==
    /\ dist_status = "active"
    /\ oracle(dist_global) \in Accounts \ {admin(dist_global)}
    /\ \E c \in Accounts, a \in Accounts :
          /\ c \notin {admin(dist_global), oracle(dist_global)}
          /\ rewardsBalance(dist_local, a) > 0
          /\ operationsCount(dist_local, a) > 0

\* C6: in TAT-DIST-001, set_oracle, update_efficiency_rate and the deletion
\* of the program called by anyone but the stored admin are rejected and
\* change no global or local state, and the admin's calls are approved; the
\* deletion of TAT-GOV-001 is likewise approved for its stored admin only.
C6_AdminOnly ==
    /\ DistLive =>
          \A s \in Accounts :
              LET guarded == {SetOracleTxn(s, a) : a \in Accounts}
                                \cup {RateTxn(s, r) : r \in Rates}
                                \cup {DistDeleteTxn(s)}
              IN  IF s # admin(dist_global)
                  THEN \A t \in guarded :
                          LET n == DistAfter(t, AnyTimestamp)
                          IN  /\ ~DistOutcome(t, AnyTimestamp).ok
                              /\ n.global = dist_global
                              /\ n.local = dist_local
                              /\ n.status = "active"
                  ELSE /\ \A a \in Accounts :
                            /\ DistOutcome(SetOracleTxn(s, a), AnyTimestamp).ok
                            /\ oracle(DistAfter(SetOracleTxn(s, a),
                                                AnyTimestamp).global) = a
                       /\ DistOutcome(DistDeleteTxn(s), AnyTimestamp).ok
                       /\ DistAfter(DistDeleteTxn(s), AnyTimestamp).status
                             = "deleted"
    /\ GovLive =>
          \A s \in Accounts :
              LET n == GovAfter(GovDeleteTxn(s), AnyTimestamp)
              IN  IF s # admin(gov_global)
                  THEN /\ ~GovOutcome(GovDeleteTxn(s), AnyTimestamp).ok
                       /\ n.global = gov_global
                       /\ n.status = "active"
                  ELSE /\ GovOutcome(GovDeleteTxn(s), AnyTimestamp).ok
                       /\ n.status = "deleted"

\* C6 witness: the admin has named an oracle and changed the rate, accounts
\* other than the admin hold a reward record, and the program is not deleted.
C6_Witness ==
    /\ dist_status = "active"
    /\ oracle(dist_global) \in Accounts \ {admin(dist_global)}
    /\ efficiencyBonusRateBps(dist_global) # 5850
    /\ \E c \in Accounts \ {admin(dist_global), oracle(dist_global)} :
          rewardsBalance(dist_local, c) > 0

\* C7: update_efficiency_rate(newRateBps) by the admin stores newRateBps when
\* newRateBps <= 10000 (10000 included) and is rejected, the rate unchanged,
\* when newRateBps > 10000; efficiencyBonusRateBps is within 0..10000 in every
\* reachable state and is 5850 at initialization.
C7_RateInv ==
    DistLive =>
    /\ efficiencyBonusRateBps(dist_global) \in 0 .. 10000
    /\ \A r \in Rates :
          LET t == RateTxn(admin(dist_global), r)
              n == DistAfter(t, AnyTimestamp)
          IN  IF r <= 10000
              THEN /\ DistOutcome(t, AnyTimestamp).ok
                   /\ efficiencyBonusRateBps(n.global) = r
                   /\ DOMAIN n.global = DOMAIN dist_global
                   /\ \A k \in DOMAIN dist_global \ {efficiency_bonus_rate_key} :
                         n.global[k] = dist_global[k]
                   /\ n.local = dist_local
              ELSE /\ ~DistOutcome(t, AnyTimestamp).ok
                   /\ efficiencyBonusRateBps(n.global) =
                         efficiencyBonusRateBps(dist_global)

C7_RateBounded ==
    /\ efficiencyBonusRateBps(dist_global) = 5850
    /\ []C7_RateInv

\* C7 witness: the admin has stored the largest rate.
C7_Witness ==
    /\ dist_status = "active"
    /\ efficiencyBonusRateBps(dist_global) = 10000

\* C8: execute_proposal, approved or rejected, changes no persisted state,
\* so that repeating it on the same id gives the same outcome and a proposal
\* that was executable stays executable.
C8_ExecuteChangesNothing ==
    GovLive =>
    \A t \in ExecuteTxns :
        LET r == GovOutcome(t, AnyTimestamp)
            n == GovAfter(t, AnyTimestamp)
        IN  /\ n.global = gov_global
            /\ n.status = gov_status
            /\ n.votes = accepted_votes
            /\ r.ok => r.global = gov_global
            /\ gov_program(t, n.global, EmptyStore, AnyTimestamp).ok = r.ok

\* C8 witness: one proposal id is executable and another, voted on, is not.
C8_Witness ==
    /\ gov_status = "active"
    /\ \E p \in ProposalIds, q \in ProposalIds :
          /\ GovOutcome(ExecuteTxn(Creator, p), AnyTimestamp).ok
          /\ accepted_votes[q] > 0
          /\ ~GovOutcome(ExecuteTxn(Creator, q), AnyTimestamp).ok

\* t is a record_operation call for account a that is approved
IsAcceptedRecordFor(t, a) ==
    /\ t \in RecordTxns
    /\ t.accounts[1] = a
    /\ DistOutcome(t, AnyTimestamp).ok

\* C9: claim_rewards by a caller whose rewardsBalance is 0 is rejected and
\* changes nothing; a successful claim_rewards leaves the balance at 0, and a
\* balance of 0 stays 0 through every call that is not an accepted
\* record_operation for that account, whoever sends it, so that a second
\* claim then fails.
C9_SecondClaimFails ==
    DistLive =>
    /\ \A s \in Accounts, now \in Timestamps :
          LET n == DistAfter(ClaimTxn(s), now)
          IN  /\ rewardsBalance(dist_local, s) = 0 =>
                    /\ ~DistOutcome(ClaimTxn(s), now).ok
                    /\ n.global = dist_global
                    /\ n.local = dist_local
              /\ DistOutcome(ClaimTxn(s), now).ok =>
                    rewardsBalance(n.local, s) = 0
    /\ \A t \in DistTxns, now \in Timestamps :
          LET n == DistAfter(t, now)
          IN  \A s \in Accounts :
                  ( /\ rewardsBalance(dist_local, s) = 0
                    /\ ~IsAcceptedRecordFor(t, s) )
                  => rewardsBalance(n.local, s) = 0

\* C9 witness: an account has claimed, holds nothing, and another account
\* holds a balance.
C9_Witness ==
    /\ dist_status = "active"
    /\ \E s \in Accounts, a \in Accounts :
          /\ a # s
          /\ lastClaimTimestamp(dist_local, s) > 0
          /\ operationsCount(dist_local, s) > 0
          /\ s \in DOMAIN dist_local
          /\ rewardsBalance(dist_local, s) = 0
          /\ rewardsBalance(dist_local, a) > 0

\* C10: each create_proposal increases proposalCount by exactly 1 and
\* writes the record of the id equal to the updated proposalCount, createdAt
\* = the ledger timestamp and the three tallies 0, and writes no record under
\* any other id.
C10_CreateWritesNewId ==
    [][\A s \in Accounts, now \in Timestamps :
          GovAccepted(CreateTxn(s), now) =>
             LET id == proposalCount(gov_global')
             IN  /\ id = proposalCount(gov_global) + 1
                 /\ ProposalKeys(id) \subseteq DOMAIN gov_global'
                 /\ createdAt(gov_global', id) = now
                 /\ votesFor(gov_global', id) = 0
                 /\ votesAgainst(gov_global', id) = 0
                 /\ votesAbstain(gov_global', id) = 0
                 /\ \A p \in (ProposalIds \cup {id + 1}) \ {id} :
                       \A k \in ProposalKeys(p) :
                          /\ k \in DOMAIN gov_global' <=> k \in DOMAIN gov_global
                          /\ k \in DOMAIN gov_global =>
                                gov_global'[k] = gov_global[k]
      ]_vars

\* C11: across every interleaving of create_proposal, vote and
\* execute_proposal calls, votes on ids not yet created included, no tally of
\* any proposal id decreases or is reset from one step to the next, and the
\* three tallies of an id sum to the number of accepted votes on that id.
C11_TalliesNeverDecrease ==
    /\ [](\A p \in ProposalIds :
            votesFor(gov_global, p) + votesAgainst(gov_global, p)
               + votesAbstain(gov_global, p) = accepted_votes[p])
    /\ [][\A p \in ProposalIds :
             /\ votesFor(gov_global', p) >= votesFor(gov_global, p)
             /\ votesAgainst(gov_global', p) >= votesAgainst(gov_global, p)
             /\ votesAbstain(gov_global', p) >= votesAbstain(gov_global, p)
         ]_vars

\* C12: the stored admin can change the quorum threshold: its update_quorum
\* call with thresholdPct is accepted and leaves quorumThresholdPct equal to
\* thresholdPct.
C12_AdminUpdatesQuorum ==
    GovLive =>
    \A pct \in {60} :
        LET t == UpdateQuorumTxn(admin(gov_global), pct)
        IN  /\ GovOutcome(t, AnyTimestamp).ok
            /\ quorumThresholdPct(GovAfter(t, AnyTimestamp).global) = pct

\* C13: in both programs the stored admin is the account that created the
\* program in every reachable state in which the program exists, whatever
\* operations and lifecycle events any caller has sent; init() runs for the
\* creating transaction only, so what it wrote under admin stays.
C13_AdminIsCreator ==
    /\ gov_status # "deleted" =>
          /\ admin_key \in DOMAIN gov_global
          /\ admin(gov_global) = Creator
    /\ dist_status # "deleted" =>
          /\ admin_key \in DOMAIN dist_global
          /\ admin(dist_global) = Creator

\* C13 witness: the admin has named an oracle and changed the rate, and an
\* account has been credited and has claimed; the program exists.
C13_Witness ==
    /\ dist_status = "active"
    /\ oracle(dist_global) \in Accounts
    /\ efficiencyBonusRateBps(dist_global) = 1
    /\ \E a \in Accounts :
          /\ operationsCount(dist_local, a) > 0
          /\ lastClaimTimestamp(dist_local, a) > 0

\* C14: in both programs every check precedes every write: when a call is
\* rejected (caller not authorized, vote type out of range, rate above the
\* bound, quorum not met, nothing to claim, or an operation the router has no
\* branch for), the stores are, where the program fails, what they were
\* before the call, with nothing for the ledger to roll back.
C14_ChecksPrecedeWrites ==
    /\ DistLive =>
          \A t \in DistTxns, now \in Timestamps :
              LET r == DistOutcome(t, now)
              IN  ~r.ok => /\ r.global = dist_global
                           /\ r.local = dist_local
    /\ GovLive =>
          \A t \in GovTxns, now \in Timestamps :
              LET r == GovOutcome(t, now)
              IN  ~r.ok => r.global = gov_global

\* C14 witness: an account that was credited and has claimed holds nothing,
\* and calls of each kind are rejected: its claim, a rate above the bound from
\* the admin, set_oracle from another account and an unrouted operation.
C14_Witness ==
    /\ dist_status = "active"
    /\ \E s \in Accounts \ {admin(dist_global)} :
          /\ operationsCount(dist_local, s) > 0
          /\ rewardsBalance(dist_local, s) = 0
          /\ ~DistOutcome(ClaimTxn(s), AnyTimestamp).ok
          /\ ~DistOutcome(SetOracleTxn(s, s), AnyTimestamp).ok
          /\ ~DistOutcome(RecordTxn(s, s, 1000, 0), AnyTimestamp).ok
    /\ ~DistOutcome(RateTxn(admin(dist_global), 10001), AnyTimestamp).ok
    /\ \E t \in DistUnroutedTxns : ~DistOutcome(t, AnyTimestamp).ok

\* The product v * r, the sum of v and its bonus, or the sum of the balance b
\* and the reward leaves the unsigned word
LeavesWord(v, r, b) ==
    \/ r > 0 /\ v > MaxUint \div r
    \/ /\ ~(r > 0 /\ v > MaxUint \div r)
       /\ \/ v + (v * r) \div 10000 > MaxUint
          \/ b + v + (v * r) \div 10000 > MaxUint

\* C15: record_operation fails closed on overflow: when operationValue *
\* rate, operationValue + bonus or rewardsBalance + reward would leave the
\* unsigned word, the call is rejected and the account's rewardsBalance and
\* operationsCount and distributionCount keep their values; no stored value
\* is outside the word, and an accepted call stores the exact sum.
C15_RecordFailsClosed ==
    /\ \A a \in DOMAIN dist_local :
          /\ rewardsBalance(dist_local, a) \in 0 .. MaxUint
          /\ operationsCount(dist_local, a) \in 0 .. MaxUint
    /\ distributionCount(dist_global) \in 0 .. MaxUint
    /\ \A s \in Accounts, a \in Accounts, e \in Efficiencies,
          v \in OpValues \cup {LargeValue} :
          LET t == RecordTxn(s, a, v, e)
              n == DistAfter(t, AnyTimestamp)
              r == efficiencyBonusRateBps(dist_global)
              b == rewardsBalance(dist_local, a)
          IN  IF LeavesWord(v, r, b)
              THEN /\ ~DistOutcome(t, AnyTimestamp).ok
                   /\ n.local = dist_local
                   /\ n.global = dist_global
              ELSE DistOutcome(t, AnyTimestamp).ok =>
                      rewardsBalance(n.local, a) = b + v + (v * r) \div 10000

\* C15 witness: at rate 1 an account holds a balance within 1000 of the end
\* of the word, so that the largest value overflows in its sum with its
\* bonus and every further reward overflows in its sum with the balance.
C15_Witness ==
    /\ efficiencyBonusRateBps(dist_global) = 1
    /\ \E a \in Accounts :
          /\ operationsCount(dist_local, a) = 1
          /\ rewardsBalance(dist_local, a) > MaxUint - 1000
          /\ LeavesWord(1000, 1, rewardsBalance(dist_local, a))
          /\ LeavesWord(MaxUint, 1, 0)
          /\ ~DistOutcome(RecordTxn(admin(dist_global), a, 1000, 0),
                          AnyTimestamp).ok

\* C16: the REWARDS_CLAIMED event of a successful claim_rewards carries the
\* caller's rewardsBalance as it was before the call, which is > 0, and that
\* amount is what the call adds to totalDistributed.
C16_ClaimEventCarriesAmount ==
    [][\A s \in Accounts, now \in Timestamps :
          DistAccepted(ClaimTxn(s), now) =>
             LET b == rewardsBalance(dist_local, s)
             IN  /\ b > 0
                 /\ DistOutcome(ClaimTxn(s), now).log
                       = << <<"REWARDS_CLAIMED:", b>> >>
                 /\ totalDistributed(dist_global') - totalDistributed(dist_global)
                       = b
      ]_vars

\* The calls that run an operation of TAT-DIST-001 or opt an account in:
\* every call of the surface but the close-out, clear-state and delete
\* lifecycle events, which free a record or the program as a whole.
DistOperationTxns ==
    {t \in DistTxns :
        t.on_completion \notin {CloseOut, ClearState, DeleteApplication}}

\* t is routed to claim_rewards and sent by account a
IsClaimBy(t, a) ==
    /\ t.sender = a
    /\ Len(t.application_args) >= 1
    /\ t.application_args[1] = op_claim_rewards

IsSetOracle(t) ==
    /\ t.on_completion \in {NoOp, UpdateApplication}
    /\ Len(t.application_args) >= 1
    /\ t.application_args[1] = op_set_oracle

\* The record_operation call of sender s for target a is approved in the
\* global store g whenever a has opted in and the arithmetic stays in the word
RecordAuthorized(s, g) ==
    \A a \in DOMAIN dist_local, v \in OpValues, e \in Efficiencies :
        ( /\ base_reward_fits(v, g)
          /\ AddFits(rewardsBalance(dist_local, a), base_reward(v, g)) )
        => dist_program(RecordTxn(s, a, v, e), g, dist_local, AnyTimestamp).ok

\* No record_operation call of sender s is approved in the global store g
RecordRefused(s, g) ==
    \A a \in Accounts, v \in OpValues, e \in Efficiencies :
        ~dist_program(RecordTxn(s, a, v, e), g, dist_local, AnyTimestamp).ok

\* The stored oracle is what the last successful set_oracle stored, the unset
\* sentinel before the first; the accounts it authorizes follow it.
C18_OracleInv ==
    DistLive =>
    /\ oracle(dist_global) = ZeroAddress =>
          \A s \in Accounts \ {admin(dist_global)} : RecordRefused(s, dist_global)
    /\ \A t \in DistTxns, now \in Timestamps :
          LET n == DistAfter(t, now)
          IN  (n.status # "deleted" /\ oracle(n.global) # oracle(dist_global)) =>
                 /\ IsSetOracle(t)
                 /\ t.sender = admin(dist_global)
                 /\ oracle(n.global) = t.accounts[1]
    /\ \A x \in Accounts, y \in Accounts :
          LET adm == admin(dist_global)
              r1 == dist_program(SetOracleTxn(adm, x), dist_global, dist_local,
                                 AnyTimestamp)
              r2 == dist_program(SetOracleTxn(adm, y), r1.global, dist_local,
                                 AnyTimestamp)
          IN  x # y =>
              /\ r1.ok
              /\ oracle(r1.global) = x
              /\ RecordAuthorized(x, r1.global)
              /\ r2.ok
              /\ oracle(r2.global) = y
              /\ RecordAuthorized(y, r2.global)
              /\ x # adm => RecordRefused(x, r2.global)

\* C18: the oracle role follows the stored value: the stored oracle is the
\* unset sentinel from initialization until the first successful set_oracle,
\* and until then only the admin has a record_operation accepted; after
\* set_oracle(X) account X is authorized, and after a later set_oracle(Y), Y #
\* X, account X, if it is not the admin, is refused again.
C18_OracleFollowsStoredValue ==
    /\ oracle(dist_global) = ZeroAddress
    /\ ZeroAddress \notin Accounts
    /\ []C18_OracleInv

\* C18 witness: an account other than the admin is the stored oracle, a
\* record_operation it sends is approved, and one sent by a third account is
\* not.
C18_Witness ==
    /\ dist_status = "active"
    /\ \E x \in Accounts, y \in Accounts, a \in Accounts :
          /\ x # admin(dist_global)
          /\ y \notin {x, admin(dist_global)}
          /\ oracle(dist_global) = x
          /\ operationsCount(dist_local, a) > 0
          /\ DistOutcome(RecordTxn(x, a, 1000, 0), AnyTimestamp).ok
          /\ ~DistOutcome(RecordTxn(y, a, 1000, 0), AnyTimestamp).ok

\* C19: the ternaryEfficiency argument of record_operation has no influence:
\* from the same state, two calls with the same caller, target account and
\* operationValue and different ternaryEfficiency values are both approved or
\* both rejected, leave the same state and emit the same reward.
C19_EfficiencyIgnored ==
    DistLive =>
    \A s \in Accounts, a \in Accounts, v \in OpValues :
        LET run(e) ==
                LET r == DistOutcome(RecordTxn(s, a, v, e), AnyTimestamp)
                IN  <<r.ok, r.log, DistAfter(RecordTxn(s, a, v, e), AnyTimestamp)>>
        IN  \A e1 \in Efficiencies, e2 \in Efficiencies : run(e1) = run(e2)

\* C19 witness: an account has been credited twice, and record_operation
\* calls for it that differ in ternaryEfficiency alone are approved.
C19_Witness ==
    /\ dist_status = "active"
    /\ \E a \in Accounts, e1 \in Efficiencies, e2 \in Efficiencies :
          /\ e1 # e2
          /\ operationsCount(dist_local, a) = 2
          /\ DistOutcome(RecordTxn(admin(dist_global), a, 1000, e1),
                         AnyTimestamp).ok
          /\ DistOutcome(RecordTxn(admin(dist_global), a, 1000, e2),
                         AnyTimestamp).ok

\* Sum of rewardsBalance, and of operationsCount, over the accounts in S
RECURSIVE BalanceSum(_, _)
BalanceSum(l, S) ==
    IF S = {} THEN 0
    ELSE LET a == CHOOSE x \in S : TRUE
         IN  rewardsBalance(l, a) + BalanceSum(l, S \ {a})

RECURSIVE OperationsSum(_, _)
OperationsSum(l, S) ==
    IF S = {} THEN 0
    ELSE LET a == CHOOSE x \in S : TRUE
         IN  operationsCount(l, a) + OperationsSum(l, S \ {a})

\* totalDistributed plus the balances of all accounts
Accounted(g, l) == totalDistributed(g) + BalanceSum(l, Accounts)

\* C20: reward conservation: the rewards credited by accepted
\* record_operation calls since initialization equal totalDistributed plus the
\* rewardsBalance of all accounts, i.e. that sum is 0 at initialization, grows
\* by the reward of every accepted record_operation and is left unchanged by
\* every other step; and distributionCount equals the sum of operationsCount
\* over all accounts.
C20_RewardConservation ==
    /\ Accounted(dist_global, dist_local) = 0
    /\ [](distributionCount(dist_global)
             = OperationsSum(dist_local, Accounts))
    /\ [][/\ \A t \in RecordTxns :
                DistAccepted(t, AnyTimestamp) =>
                   Accounted(dist_global', dist_local')
                      = Accounted(dist_global, dist_local)
                           + base_reward(t.application_args[2], dist_global)
          /\ (\A t \in RecordTxns : ~DistAccepted(t, AnyTimestamp)) =>
                Accounted(dist_global', dist_local')
                   = Accounted(dist_global, dist_local)
         ]_vars

============================================================================
